---- MODULE Spec2Model ----
(***************************************************************************)
(* Model of the agent orchestration core of the tenant-screening pipeline: *)
(*   src/mcp_server/orchestrator.py     AgentOrchestrator                   *)
(*   src/mcp_server/context_manager.py  ContextManager                      *)
(*   src/agents/base_ai_agent.py        BaseAIAgent.execute                 *)
(*   src/agents/audit_agent.py          AuditAgent._run                     *)
(*   src/background_processor.py        ApplicationProcessor               *)
(*   src/api/routes.py                  process_pending_applications       *)
(*   src/tools/database_tool.py         get_pending_applications           *)
(*                                                                         *)
(* Six specifications share the variables:                                 *)
(*   SpecOrder    register_agent and _determine_execution_order over       *)
(*                arbitrary small dependency graphs                        *)
(*   SpecCtx      the ContextManager operations called one after another   *)
(*   SpecApi      the screening status and the lifetime of a context:      *)
(*                update_status and cleanup_context, and start_screening,  *)
(*                get_status and wait_for_completion of the orchestrator,  *)
(*                called one after another                                 *)
(*   Spec         execute_screening runs (possibly overlapping) against    *)
(*                the graph registered at construction                     *)
(*   SpecStop     one execute_screening run with start() and stop()        *)
(*   SpecPending  the two loops that screen the pending applications of    *)
(*                the database                                             *)
(***************************************************************************)
EXTENDS Naturals, Sequences, FiniteSets

VARIABLES
    agents,              \* AgentOrchestrator.agents: its keys, in insertion order
    agent_dependencies,  \* AgentOrchestrator.agent_dependencies
    plan,                \* outcome of the last _determine_execution_order()
    contexts,            \* ContextManager.contexts: screening id -> context object
    heap,                \* the context objects (dicts), by reference
    ret,                 \* outcome of the last call made from outside, create_context apart
    runs,                \* the execute_screening coroutines and their stage tasks
    faults,              \* stage invocations that ended in an error or an exception
    audit_log,           \* AuditAgent.audit_log of the registered audit agent: its length
    active_screenings,   \* AgentOrchestrator.active_screenings: the ids with a task
    _running,            \* AgentOrchestrator._running
    _locks,              \* ContextManager._locks: the ids with a lock of their own
    applications,        \* the rows of the database table `applications`
    workers              \* the batch loops of the processor and of POST /process-pending

orderVars == <<agents, agent_dependencies, plan>>

ctxVars == <<contexts, heap, ret>>

runVars == <<runs, faults, audit_log>>

svcVars == <<active_screenings, _running, _locks, applications, workers>>

vars ==
    <<agents, agent_dependencies, plan, contexts, heap, ret, runs, faults,
      audit_log, active_screenings, _running, _locks, applications, workers>>

Range(s) == {s[i] : i \in 1..Len(s)}

Position(order, x) == CHOOSE i \in 1..Len(order) : order[i] = x

(***************************************************************************)
(* Bounds of the model.                                                    *)
(***************************************************************************)
\* longest dependency list SpecOrder registers
MaxDeps == 2
\* call depth at which the interpreter stops a recursion (RecursionError);
\* any acyclic graph over Names needs at most Cardinality(Names) frames
MaxCallDepth == 5

\* results held by all context objects together in SpecCtx
MaxWrites == 2
\* stage invocations of Spec that end in an error result or an exception
MaxFaults == 1

\* agent names SpecOrder registers
Names == {"a", "b", "c"}

SeqsUpTo(S, n) == UNION {[1..k -> S] : k \in 0..n}

\* the dependency lists SpecOrder registers: each names a dependency once
DepLists ==
    {l \in SeqsUpTo(Names, MaxDeps) :
        \A i, j \in 1..Len(l) : i # j => l[i] # l[j]}

NoError == "none"

\* no call of _determine_execution_order since the last registration
NoPlan == [computed |-> FALSE, error |-> NoError, order |-> <<>>]

(***************************************************************************)
(* AgentOrchestrator: the registry.  `agents` is the key sequence of the   *)
(* dict self.agents (insertion order), `agent_dependencies` the dict       *)
(* self.agent_dependencies.                                                *)
(***************************************************************************)
\* self.agent_dependencies.get(agent_name, [])
DepsOf(deps, agent_name) ==
    IF agent_name \in DOMAIN deps THEN deps[agent_name] ELSE <<>>

\* register_agent: both dict assignments; a name already present keeps its
\* position in the dict and gets the new dependency list
RegisterAgent(agent_name, dependencies) ==
    /\ agents' = IF agent_name \in Range(agents) THEN agents
                 ELSE Append(agents, agent_name)
    /\ agent_dependencies' =
          [n \in (DOMAIN agent_dependencies) \cup {agent_name} |->
              IF n = agent_name THEN dependencies ELSE agent_dependencies[n]]
    /\ plan' = NoPlan
    /\ UNCHANGED <<ctxVars, runVars, svcVars>>

(***************************************************************************)
(* _determine_execution_order: depth-first visit.  st is the pair of the   *)
(* closure variables (visited, order) plus the exception in flight.        *)
(***************************************************************************)

VisitStart == [visited |-> {}, order |-> <<>>, error |-> NoError]

\* visited.add(agent_name); order.insert(0, agent_name)
MarkVisitedFront(st, agent_name) ==
    [st EXCEPT !.visited = @ \cup {agent_name}, !.order = <<agent_name>> \o @]

\* visited.add(agent_name); order.append(agent_name)
MarkVisited(st, agent_name) ==
    [st EXCEPT !.visited = @ \cup {agent_name}, !.order = Append(@, agent_name)]

RECURSIVE Visit(_, _, _, _)
RECURSIVE VisitDeps(_, _, _, _, _)

\* the for loop over the dependencies of one agent, from index i on
VisitDeps(deps, list, i, st, depth) ==
    IF st.error # NoError \/ i > Len(list) THEN st
    ELSE VisitDeps(deps, list, i + 1, Visit(deps, list[i], st, depth), depth)

\* visit(agent_name) called at call depth `depth`; a call deeper than the
\* interpreter allows raises RecursionError, which unwinds every frame
Visit(deps, agent_name, st, depth) ==
    IF depth > MaxCallDepth THEN [st EXCEPT !.error = "RecursionError"]
    ELSE IF agent_name \in st.visited THEN st
    ELSE LET after == VisitDeps(deps, DepsOf(deps, agent_name), 1, st, depth + 1)
         IN  IF after.error # NoError THEN after
             ELSE MarkVisited(after, agent_name)

\* the value (or exception) of _determine_execution_order()
DetermineExecutionOrderOf(keys, deps) ==
    LET st == VisitDeps(deps, keys, 1, VisitStart, 1)
    IN  IF st.error # NoError
        THEN [computed |-> TRUE, error |-> st.error, order |-> <<>>]
        ELSE [computed |-> TRUE, error |-> NoError, order |-> st.order]

DetermineExecutionOrder ==
    /\ plan' = DetermineExecutionOrderOf(agents, agent_dependencies)
    /\ UNCHANGED <<agents, agent_dependencies, ctxVars, runVars, svcVars>>

(***************************************************************************)
(* Values.  A stage result is the dict BaseAIAgent.execute returns; a      *)
(* context is the dict create_context builds.  Context dicts are objects:  *)
(* `contexts` maps a screening id to a reference, `heap` holds the dicts,  *)
(* so that a coroutine which fetched a context keeps the same object when  *)
(* the id is given a new one.                                              *)
(***************************************************************************)
\* the screening ids, in a fixed order
IdSeq == <<"s1", "s2">>

Ids == Range(IdSeq)

Data == {"d1", "d2"}

\* A reference is a slot of the heap.  The dict the store holds for an id
\* lives in the slot of that id; a dict the store replaced while coroutines
\* still hold it lives in the slot of the first such coroutine.
SlotOf(id) == Position(IdSeq, id)

DetachedSlot(r) == Len(IdSeq) + r

\* the invocations of execute_screening, in the order they are made
Runs == {1, 2}

NoRef == 0

Refs == {SlotOf(id) : id \in Ids} \cup {DetachedSlot(r) : r \in Runs}

Stages ==
    {"ingestion", "identity", "fraud", "risk", "decision", "compliance",
     "bias", "audit"}

\* the "agent" entry of a result: the agent_name the stage's class passes to
\* BaseAIAgent.__init__
AgentNameOf(s) ==
    CASE s = "ingestion"  -> "IngestionAIAgent"
      [] s = "identity"   -> "IdentityAIAgent"
      [] s = "fraud"      -> "FraudDetectionAgent"
      [] s = "risk"       -> "RiskAIAgent"
      [] s = "decision"   -> "DecisionAIAgent"
      [] s = "compliance" -> "ComplianceAIAgent"
      [] s = "bias"       -> "BiasAIAgent"
      [] s = "audit"      -> "AuditAgent"
      [] OTHER            -> s

\* BaseAIAgent.execute, normal return: status, agent, data (metadata left out)
SuccessResult(s) ==
    [status |-> "success", agent |-> AgentNameOf(s), data |-> "data",
     error |-> "absent"]

\* an except branch that would also hand on a "data" entry
ErrorResultWithData(s) ==
    [status |-> "error", agent |-> AgentNameOf(s), data |-> "data",
     error |-> "message"]

\* BaseAIAgent.execute, except branch: status, agent, error (no data)
ErrorResult(s) ==
    [status |-> "error", agent |-> AgentNameOf(s), data |-> "absent",
     error |-> "message"]

\* the statuses BaseAIAgent.execute returns
ReturnStatuses == {"success", "error"}

ResultOf(s, status) ==
    IF status = "success" THEN SuccessResult(s) ELSE ErrorResult(s)

\* None, where a result is expected
NoResult ==
    [status |-> "absent", agent |-> "absent", data |-> "absent",
     error |-> "absent"]

\* result.get("status", "unknown")
StatusOf(result) ==
    IF result.status = "absent" THEN "unknown" ELSE result.status

\* a slot of the heap that holds no dict
FreeSlot ==
    [status |-> "free", initial_data |-> "absent", agent_results |-> <<>>,
     agent_execution_order |-> <<>>, keys |-> <<>>]

\* the dict create_context builds; `keys` are the "<stage>_result" entries
\* execute_screening adds to it later
NewContext(initial_data) ==
    [status |-> "initialized", initial_data |-> initial_data,
     agent_results |-> <<>>, agent_execution_order |-> <<>>, keys |-> <<>>]

\* d[k] = v on a dict
Put(d, k, v) == [x \in (DOMAIN d) \cup {k} |-> IF x = k THEN v ELSE d[x]]

(***************************************************************************)
(* The table `applications` and the two loops that work through its        *)
(* pending rows: ApplicationProcessor._process_batch, in a process of its   *)
(* own, and the handler of POST /process-pending in the API server.  The    *)
(* application id of a row is the screening id of its context.             *)
(***************************************************************************)
\* a row as a submission leaves it
SubmittedRow == [status |-> "PENDING", screening_completed |-> 0]

Workers == {"processor", "endpoint"}

\* a loop that holds no batch
IdleWorker == [pc |-> "idle", batch |-> <<>>, i |-> 0]

\* LIMIT %s: batch_size of the processor, limit of the endpoint
Limits == {1, 2}

\* the ids in `order` whose row is selected, in that order
RECURSIVE Selected(_, _)
Selected(order, rows) ==
    IF order = <<>> THEN <<>>
    ELSE LET id == Head(order)
             rest == Selected(Tail(order), rows)
         IN  IF rows[id].status = "PENDING" /\ rows[id].screening_completed = 0
             THEN <<id>> \o rest ELSE rest

\* get_pending_applications: WHERE status = 'PENDING' AND
\* screening_completed = 0 ORDER BY created_at ASC LIMIT limit
GetPendingApplications(limit) ==
    LET pending == Selected(IdSeq, applications)
    IN  IF Len(pending) <= limit THEN pending ELSE SubSeq(pending, 1, limit)

\* what a screening hands to the loop: the "decision" of the final decision
\* ("none": there is no such entry), or an exception
Outcomes == {"APPROVE", "DENY", "none", "raised"}

\* decision_to_status(final_decision.get('decision', 'PENDING'))
DecisionToStatus(decision) ==
    CASE decision = "APPROVE" -> "APPROVED"
      [] decision = "DENY"    -> "REJECTED"
      [] OTHER                -> "PENDING"

(***************************************************************************)
(* The coroutines of execute_screening.  A run keeps the context object it *)
(* fetched (`ctx`) and one task state per stage; the locals                *)
(* ingestion_result ... audit_result are the results of the returned       *)
(* tasks.  `first` is the stage of the latest gather that returned before  *)
(* the other one, `audit_id` the n of the "audit_id" "AUDIT-n" in the data *)
(* of the audit result (0: the audit stage returned no data).              *)
(***************************************************************************)
NoReport ==
    [status |-> "absent", agent_results |-> <<>>, final_decision |-> "absent",
     audit_id |-> 0]

\* what a stage was handed as input_data: nothing yet
NoInput == "none"

IdleRun ==
    [pc |-> "idle", id |-> "none", ctx |-> NoRef, phase |-> 0,
     task |-> [s \in Stages |-> "none"],
     input |-> [s \in Stages |-> NoInput],
     first |-> "none", audit_id |-> 0, exc |-> NoError, report |-> NoReport]

\* a coroutine or one of its tasks is still alive and refers to the context
Holds(run) ==
    \/ run.pc = "running"
    \/ \E s \in Stages : run.task[s] = "running"

\* a run that ended forgets a context object the store no longer has
DropRefs(rs, c) ==
    [r \in Runs |->
        IF Holds(rs[r]) \/ rs[r].ctx \in {c[id] : id \in Ids}
        THEN rs[r] ELSE [rs[r] EXCEPT !.ctx = NoRef]]

\* the context objects something still refers to
Live(rs, c) == ({c[id] : id \in Ids} \cup {rs[r].ctx : r \in Runs}) \ {NoRef}

\* objects nothing refers to are freed
Collect(h, live) == [ref \in Refs |-> IF ref \in live THEN h[ref] ELSE FreeSlot]

(***************************************************************************)
(* ContextManager.                                                         *)
(***************************************************************************)
NoStageInput == [initial_data |-> "absent", agent_results |-> <<>>]

\* no dict returned by get_status
NoStatus ==
    [error |-> "absent", status |-> "absent", agents_completed |-> 0,
     agents_total |-> 0]

\* the outcome of a call: what it raised or returned; `lock` is the lock a
\* writer held, `inflight` the execute_screening coroutines that were under
\* way when stop() was called
Returned(op, id) ==
    [op |-> op, id |-> id, agent |-> "none", deps |-> <<>>, raised |-> NoError,
     value |-> NoStageInput, result |-> NoResult, progress |-> NoStatus,
     lock |-> "none", inflight |-> {}]

NoCall == Returned("none", "none")

\* get_context: self.contexts.get(screening_id), a plain (not async) method
GetContext(id) == contexts[id]

\* `await v` for a v that is no awaitable (a dict, None): TypeError
AwaitPlainValue(v) == [raised |-> "TypeError", value |-> v]

\* create_context: self.contexts[screening_id] = {...}; whatever the id held
\* before is replaced, nothing is raised.  Coroutines that fetched the
\* replaced dict keep it.
CreateContextIn(id, initial_data) ==
    LET ref == SlotOf(id)
        holders == {r \in Runs : Holds(runs[r]) /\ runs[r].ctx = ref}
        first == CHOOSE q \in holders : \A r \in holders : q <= r
        c == [contexts EXCEPT ![id] = ref]
        rs == [r \in Runs |->
                 IF runs[r].ctx # ref THEN runs[r]
                 ELSE IF r \in holders
                 THEN [runs[r] EXCEPT !.ctx = DetachedSlot(first)]
                 ELSE [runs[r] EXCEPT !.ctx = NoRef]]
        h == IF holders = {}
             THEN [heap EXCEPT ![ref] = NewContext(initial_data)]
             ELSE [heap EXCEPT ![ref] = NewContext(initial_data),
                               ![DetachedSlot(first)] = heap[ref]]
    IN  /\ contexts' = c
        /\ runs' = rs
        /\ heap' = h
        /\ ret' = NoCall

CreateContext(id, initial_data) ==
    /\ CreateContextIn(id, initial_data)
    /\ UNCHANGED <<svcVars, orderVars, faults, audit_log>>

\* self._locks.get(screening_id, asyncio.Lock()): the lock kept for the id,
\* named after it, or without one a Lock object made for this call alone
NewLock == "new"

LockOf(id) == IF id \in _locks THEN id ELSE NewLock

\* entries of agent_execution_order in all context objects together
RECURSIVE Writes(_)
Writes(refs) ==
    IF refs = {} THEN 0
    ELSE LET ref == CHOOSE x \in refs : TRUE
         IN  Len(heap[ref].agent_execution_order) + Writes(refs \ {ref})

\* store_agent_result: under the lock, ValueError for an unknown id, else
\* agent_results[agent_name] = {"result": result, ...} and one more entry of
\* metadata.agent_execution_order
StoreAgentResult(id, agent_name, result) ==
    LET ref == contexts[id]
    IN  /\ IF ref = NoRef
           THEN /\ ret' = [Returned("store_agent_result", id) EXCEPT
                              !.agent = agent_name, !.raised = "ValueError",
                              !.lock = LockOf(id)]
                /\ UNCHANGED heap
           ELSE /\ Writes(Refs) < MaxWrites
                /\ heap' = [heap EXCEPT
                      ![ref].agent_results = Put(@, agent_name, result),
                      ![ref].agent_execution_order =
                          Append(@, [agent |-> agent_name,
                                     status |-> StatusOf(result)])]
                /\ ret' = [Returned("store_agent_result", id) EXCEPT
                              !.agent = agent_name, !.lock = LockOf(id)]
        /\ UNCHANGED <<contexts, orderVars, runVars, svcVars>>

\* get_agent_result: awaits get_context first
GetAgentResultOf(id, agent_name) ==
    LET context == AwaitPlainValue(GetContext(id))
    IN  IF context.raised # NoError
        THEN [raised |-> context.raised, value |-> NoResult]
        ELSE IF context.value = NoRef
        THEN [raised |-> NoError, value |-> NoResult]
        ELSE IF agent_name \in DOMAIN heap[context.value].agent_results
        THEN [raised |-> NoError,
              value |-> heap[context.value].agent_results[agent_name]]
        ELSE [raised |-> NoError, value |-> NoResult]

\* `if dep_result:` a result that is None or an empty dict is skipped
Truthy(result) == result # NoResult

\* the loop of get_input_for_agent over the dependencies, from index i on;
\* acc is [raised, value]: the exception in flight and agent_input["agent_results"]
RECURSIVE DependencyResults(_, _, _, _)
DependencyResults(id, dependencies, i, acc) ==
    IF acc.raised # NoError \/ i > Len(dependencies) THEN acc
    ELSE LET dep_result == GetAgentResultOf(id, dependencies[i])
         IN  DependencyResults(id, dependencies, i + 1,
                IF dep_result.raised # NoError
                THEN [acc EXCEPT !.raised = dep_result.raised]
                ELSE IF Truthy(dep_result.value)
                THEN [acc EXCEPT !.value = Put(@, dependencies[i], dep_result.value)]
                ELSE acc)

\* get_input_for_agent: awaits get_context first, ValueError for an unknown
\* id, else the initial data and the results of the dependencies
GetInputForAgentOf(id, agent_name, dependencies) ==
    LET context == AwaitPlainValue(GetContext(id))
    IN  IF context.raised # NoError
        THEN [raised |-> context.raised, value |-> NoStageInput]
        ELSE IF context.value = NoRef
        THEN [raised |-> "ValueError", value |-> NoStageInput]
        ELSE LET got == DependencyResults(id, dependencies, 1,
                            [raised |-> NoError, value |-> <<>>])
             IN  IF got.raised # NoError
                 THEN [raised |-> got.raised, value |-> NoStageInput]
                 ELSE [raised |-> NoError,
                       value |-> [initial_data |-> heap[context.value].initial_data,
                                  agent_results |-> got.value]]

GetInputForAgent(id, agent_name, dependencies) ==
    LET out == GetInputForAgentOf(id, agent_name, dependencies)
    IN  /\ ret' = [Returned("get_input_for_agent", id) EXCEPT
                      !.agent = agent_name, !.deps = dependencies,
                      !.raised = out.raised, !.value = out.value]
        /\ UNCHANGED <<contexts, heap, orderVars, runVars, svcVars>>

\* the statuses the orchestrator passes to update_status
UpdateStatuses == {"processing", "completed", "failed", "timeout"}

\* update_status: under the lock, the status of a known id is set; an unknown
\* id is passed over in silence
UpdateStatus(id, status) ==
    /\ heap' = IF contexts[id] = NoRef THEN heap
               ELSE [heap EXCEPT ![contexts[id]].status = status]
    /\ ret' = [Returned("update_status", id) EXCEPT !.lock = LockOf(id)]
    /\ UNCHANGED <<contexts, orderVars, runVars, svcVars>>

\* get_agent_result as a call of its own
GetAgentResult(id, agent_name) ==
    LET out == GetAgentResultOf(id, agent_name)
    IN  /\ ret' = [Returned("get_agent_result", id) EXCEPT
                      !.agent = agent_name, !.raised = out.raised,
                      !.result = out.value]
        /\ UNCHANGED <<contexts, heap, orderVars, runVars, svcVars>>

\* AgentOrchestrator.get_status: awaits get_context first; an unknown id
\* gives the dict {"error": "Screening not found"}, a known one its status
\* and the counts len(context["agent_results"]) and len(self.agents)
GetStatusOf(id) ==
    LET context == AwaitPlainValue(GetContext(id))
    IN  IF context.raised # NoError
        THEN [raised |-> context.raised, value |-> NoStatus]
        ELSE IF context.value = NoRef
        THEN [raised |-> NoError,
              value |-> [NoStatus EXCEPT !.error = "Screening not found"]]
        ELSE [raised |-> NoError,
              value |-> [error |-> "absent",
                         status |-> heap[context.value].status,
                         agents_completed |->
                            Cardinality(DOMAIN heap[context.value].agent_results),
                         agents_total |-> Len(agents)]]

GetStatus(id) ==
    LET out == GetStatusOf(id)
    IN  /\ ret' = [Returned("get_status", id) EXCEPT
                      !.raised = out.raised, !.progress = out.value]
        /\ UNCHANGED <<contexts, heap, orderVars, runVars, svcVars>>

\* AgentOrchestrator.start_screening with a newly drawn screening id:
\* create_context builds the context and returns None, the await of that
\* None raises, and the lines that create the task and enter it into
\* active_screenings are not reached
StartScreening(id, application_data) ==
    LET created == AwaitPlainValue(NoRef)
    IN  /\ contexts[id] = NoRef
        /\ contexts' = [contexts EXCEPT ![id] = SlotOf(id)]
        /\ heap' = [heap EXCEPT ![SlotOf(id)] = NewContext(application_data)]
        /\ ret' = [Returned("start_screening", id) EXCEPT
                      !.raised = created.raised]
        /\ UNCHANGED <<svcVars, orderVars, runVars>>

\* cleanup_context: for an id with a context, `del self.contexts[id]` and
\* then `del self._locks[id]`, which raises KeyError when the id has no lock
\* of its own; for any other id nothing is done
CleanupContext(id) ==
    IF contexts[id] = NoRef
    THEN /\ ret' = Returned("cleanup_context", id)
         /\ UNCHANGED <<contexts, heap, svcVars, orderVars, runVars>>
    ELSE LET c == [contexts EXCEPT ![id] = NoRef]
             kept == DropRefs(runs, c)
         IN  /\ contexts' = c
             /\ runs' = kept
             /\ heap' = Collect(heap, Live(kept, c))
             /\ _locks' = _locks \ {id}
             /\ ret' = [Returned("cleanup_context", id) EXCEPT
                           !.raised = IF id \in _locks THEN NoError
                                      ELSE "KeyError"]
             /\ UNCHANGED <<active_screenings, _running, applications,
                             workers, orderVars, faults, audit_log>>

\* the timeout argument of wait_for_completion: None or a number of seconds
Timeouts == {"none", "seconds"}

\* AgentOrchestrator.wait_for_completion.  Without a task for the id the
\* call awaits what get_context returns.  With one it awaits the task, under
\* asyncio.wait_for when a timeout is given; the timeout may then expire
\* first, which cancels the task, sets the status "timeout" and raises.
WaitForCompletion(id, timeout) ==
    /\ IF id \notin active_screenings
       THEN LET context == AwaitPlainValue(GetContext(id))
            IN  /\ ret' = [Returned("wait_for_completion", id) EXCEPT
                              !.raised = context.raised]
                /\ UNCHANGED <<heap, active_screenings>>
       ELSE \E expired \in (IF timeout = "none" THEN {FALSE} ELSE BOOLEAN) :
               IF expired
               THEN /\ heap' = IF contexts[id] = NoRef THEN heap
                               ELSE [heap EXCEPT ![contexts[id]].status = "timeout"]
                    /\ active_screenings' = active_screenings \ {id}
                    /\ ret' = [Returned("wait_for_completion", id) EXCEPT
                                  !.raised = "TimeoutError"]
               ELSE /\ active_screenings' = active_screenings \ {id}
                    /\ ret' = Returned("wait_for_completion", id)
                    /\ UNCHANGED heap
    /\ UNCHANGED <<contexts, _running, _locks, applications, workers,
                    orderVars, runVars>>

\* AgentOrchestrator.start
Start ==
    /\ _running' = TRUE
    /\ ret' = Returned("start", "none")
    /\ UNCHANGED <<active_screenings, _locks, applications, workers, contexts,
                    heap, orderVars, runVars>>

\* AgentOrchestrator.stop: every task of active_screenings is cancelled and
\* awaited, then the dict is cleared.  Coroutines of execute_screening are
\* no tasks of that dict and are left as they are; which of them were
\* under way is noted in the outcome of the call.
Stop ==
    /\ _running' = FALSE
    /\ active_screenings' = {}
    /\ ret' = [Returned("stop", "none") EXCEPT
                  !.inflight = {r \in Runs : runs[r].pc = "running"}]
    /\ UNCHANGED <<_locks, applications, workers, contexts, heap, orderVars,
                    runVars>>

\* the loop fetches its batch of pending rows; with none it returns
PickUp(w, limit) ==
    LET pending_apps == GetPendingApplications(limit)
    IN  /\ workers[w].pc = "idle"
        /\ workers' = [workers EXCEPT ![w] =
              IF pending_apps = <<>> THEN IdleWorker
              ELSE [pc |-> "selected", batch |-> pending_apps, i |-> 1]]
        /\ UNCHANGED <<active_screenings, _running, _locks, applications,
                        orderVars, ctxVars, runVars>>

\* the next application of the batch: its context is created (in the store
\* of the API server for the endpoint, in the processor's own store
\* otherwise), its row is set to 'processing' and execute_screening is
\* invoked for it
BeginApplication(w) ==
    LET application_id == workers[w].batch[workers[w].i]
    IN  /\ workers[w].pc = "selected"
        /\ IF w = "endpoint"
           THEN CreateContextIn(application_id, "d1")
           ELSE UNCHANGED <<contexts, heap, runs, ret>>
        /\ applications' = [applications EXCEPT ![application_id] =
              [status |-> "processing", screening_completed |-> 0]]
        /\ workers' = [workers EXCEPT ![w].pc = "screening"]
        /\ UNCHANGED <<active_screenings, _running, _locks, orderVars,
                        faults, audit_log>>

\* execute_screening has returned or raised: the row gets the status of the
\* decision and screening_completed = 1, or 'error' and 0 after an
\* exception; the loop goes on to the next application of its batch
EndApplication(w, outcome) ==
    LET application_id == workers[w].batch[workers[w].i]
    IN  /\ workers[w].pc = "screening"
        /\ applications' = [applications EXCEPT ![application_id] =
              IF outcome = "raised"
              THEN [status |-> "error", screening_completed |-> 0]
              ELSE [status |-> DecisionToStatus(outcome),
                    screening_completed |-> 1]]
        /\ workers' = [workers EXCEPT ![w] =
              IF workers[w].i = Len(workers[w].batch) THEN IdleWorker
              ELSE [@ EXCEPT !.pc = "selected", !.i = @ + 1]]
        /\ UNCHANGED <<active_screenings, _running, _locks, orderVars,
                        ctxVars, runVars>>

(***************************************************************************)
(* Specifications.                                                         *)
(***************************************************************************)
\* AgentOrchestrator.__init__ before _register_all_agents, ContextManager.__init__
InitOrder ==
    /\ agents = <<>>
    /\ agent_dependencies = <<>>
    /\ plan = NoPlan
    /\ contexts = [id \in Ids |-> NoRef]
    /\ heap = [ref \in Refs |-> FreeSlot]
    /\ ret = NoCall
    /\ runs = [r \in Runs |-> IdleRun]
    /\ faults = 0
    /\ audit_log = 0
    /\ active_screenings = {}
    /\ _running = FALSE
    /\ _locks = {}
    /\ applications = [id \in Ids |-> SubmittedRow]
    /\ workers = [w \in Workers |-> IdleWorker]

NextOrder ==
    \/ \E n \in Names, d \in DepLists : RegisterAgent(n, d)
    \/ DetermineExecutionOrder

SpecOrder == InitOrder /\ [][NextOrder]_vars

\* the agents SpecCtx stores results of, and the dependency lists it asks for
CtxAgents == {"fraud", "risk"}

CtxDepLists ==
    {l \in SeqsUpTo(CtxAgents, MaxDeps) :
        \A i, j \in 1..Len(l) : i # j => l[i] # l[j]}

InitCtx == InitOrder

NextCtx ==
    \/ \E id \in Ids, d \in Data : CreateContext(id, d)
    \/ \E id \in Ids, a \in CtxAgents, st \in ReturnStatuses :
          StoreAgentResult(id, a, ResultOf(a, st))
    \/ \E id \in Ids, l \in CtxDepLists : GetInputForAgent(id, "decision", l)

SpecCtx == InitCtx /\ [][NextCtx]_vars


(***************************************************************************)
(* AgentOrchestrator.execute_screening.  The workflow is written out phase *)
(* by phase: two stages under asyncio.gather, or one stage awaited         *)
(* directly.  A stage invocation is agent.execute(context): it returns a   *)
(* success result, returns an error result (BaseAIAgent.execute caught an  *)
(* Exception of _run), or raises what execute does not catch.              *)
(***************************************************************************)
\* the phases of execute_screening, each in the order its stages are invoked
Phases ==
    << <<"ingestion", "identity">>, <<"fraud", "risk">>, <<"decision">>,
       <<"compliance", "bias">>, <<"audit">> >>

\* the phases whose stages run as tasks of one asyncio.gather
Gathered(p) == Len(Phases[p]) > 1

\* the phase each stage is invoked in
StagePhase ==
    [s \in Stages |-> CHOOSE p \in 1..Len(Phases) : s \in Range(Phases[p])]

PhaseOf(s) == StagePhase[s]

\* the keys of self.agents after _register_all_agents, in insertion order
RegisteredAgents ==
    <<"ingestion", "identity", "fraud", "risk", "decision", "compliance",
      "bias", "audit">>

\* a registration of the audit stage that names the decision stage alone
RegisteredDepsAuditAfterDecision ==
    [s \in Stages |->
        CASE s \in {"ingestion", "identity"} -> <<>>
          [] s \in {"fraud", "risk"}         -> <<"ingestion", "identity">>
          [] s = "decision"   -> <<"ingestion", "identity", "fraud", "risk">>
          [] s \in {"compliance", "bias", "audit"} -> <<"decision">>]

\* self.agent_dependencies after _register_all_agents
RegisteredDeps ==
    [s \in Stages |->
        CASE s \in {"ingestion", "identity"} -> <<>>
          [] s \in {"fraud", "risk"}         -> <<"ingestion", "identity">>
          [] s = "decision"   -> <<"ingestion", "identity", "fraud", "risk">>
          [] s \in {"compliance", "bias"}    -> <<"decision">>
          [] s = "audit"      -> <<"compliance", "bias", "decision">>]

\* a report list that leaves the last stage out
ReportOrderShort ==
    <<"ingestion", "identity", "fraud", "risk", "decision", "compliance",
      "bias">>

\* the list final_result["agent_results"] is built from
ReportOrder ==
    <<"ingestion", "identity", "fraud", "risk", "decision", "compliance",
      "bias", "audit">>

\* decision_result.get("data"): no default
DataOrAbsent(result) == result.data

\* decision_result.get("data", {})
DataOr(result) == IF result.data = "absent" THEN "empty" ELSE result.data

\* agent.execute(context): the stage is handed the context dict itself, by
\* reference, and so sees every "<stage>_result" entry the dict holds while
\* it runs
StageInput(c) == "context"

\* the results a running stage can read in what it was handed
Exposed(run, s) ==
    IF run.input[s] = "context" THEN DOMAIN heap[run.ctx].keys ELSE {}

\* the stages of phase p are invoked, each with the context as its argument;
\* from here on a stage is running, as a task of the gather or under the
\* direct await
Launch(run, p, c) ==
    [run EXCEPT
        !.phase = p,
        !.first = IF Gathered(p) THEN @ ELSE "none",
        !.task = [s \in Stages |->
                    IF s \in Range(Phases[p]) THEN "running" ELSE @[s]],
        !.input = [s \in Stages |->
                    IF s \in Range(Phases[p]) THEN StageInput(c) ELSE @[s]]]

\* context["<stage>_result"] = <stage>_result, for the stages of a phase
RECURSIVE PutResults(_, _, _, _)
PutResults(keys, list, i, results) ==
    IF i > Len(list) THEN keys
    ELSE PutResults(Put(keys, list[i], results[i]), list, i + 1, results)

\* a gather that would return its results in the order the tasks completed
AwaitedResultsAsCompleted(run) ==
    LET list == Phases[run.phase]
        order == IF Gathered(run.phase) /\ run.first = list[2]
                 THEN <<list[2], list[1]>> ELSE list
    IN  [i \in 1..Len(list) |-> ResultOf(order[i], run.task[order[i]])]

\* the value of the await of a phase: the result of the awaited stage, or
\* the results asyncio.gather returns, which are in the order of its
\* arguments whatever the order the tasks completed in
AwaitedResults(run) ==
    LET list == Phases[run.phase]
    IN  [i \in 1..Len(list) |-> ResultOf(list[i], run.task[list[i]])]

\* final_result
FinalResult(run) ==
    [status |-> "completed",
     agent_results |->
        [i \in 1..Len(ReportOrder) |->
            ResultOf(ReportOrder[i], run.task[ReportOrder[i]])],
     final_decision |-> DataOr(ResultOf("decision", run.task["decision"])),
     audit_id |-> run.audit_id]

\* a fail-fast orchestrator: an error result among the results of the phase
\* ends the run
ContinueFailFast(run, h) ==
    LET c == [h[run.ctx] EXCEPT
                !.keys = PutResults(@, Phases[run.phase], 1, AwaitedResults(run))]
        h1 == [h EXCEPT ![run.ctx] = c]
    IN  IF \E s \in Range(Phases[run.phase]) : run.task[s] = "error"
        THEN [run |-> [run EXCEPT !.pc = "raised", !.exc = "StageError"],
              heap |-> h1]
        ELSE IF run.phase = Len(Phases)
        THEN [run |-> [run EXCEPT !.pc = "done", !.first = "none",
                                  !.report = FinalResult(run)],
              heap |-> h1]
        ELSE [run |-> Launch(run, run.phase + 1, c), heap |-> h1]

\* the code that follows the await of a phase: the results go into the
\* context, then the next phase is invoked or the final result is returned
Continue(run, h) ==
    LET c == [h[run.ctx] EXCEPT
                !.keys = PutResults(@, Phases[run.phase], 1, AwaitedResults(run))]
        h1 == [h EXCEPT ![run.ctx] = c]
    IN  IF run.phase = Len(Phases)
        THEN [run |-> [run EXCEPT !.pc = "done", !.first = "none",
                                  !.report = FinalResult(run)],
              heap |-> h1]
        ELSE [run |-> Launch(run, run.phase + 1, c), heap |-> h1]

\* a gather that would wake its caller at the first result
GatherDoneAny(run) ==
    \E s \in Range(Phases[run.phase]) : run.task[s] \in ReturnStatuses

\* the awaited gather has a result: every task of the phase returned
GatherDone(run) ==
    \A s \in Range(Phases[run.phase]) : run.task[s] \in ReturnStatuses

\* the new runs and heap, with what nothing refers to any more released
Settle(rs, h) ==
    LET kept == DropRefs(rs, contexts)
    IN  /\ runs' = kept
        /\ heap' = Collect(h, Live(kept, contexts))

\* execute_screening up to its first await: the context is fetched,
\* ValueError without one, else phase 1 is invoked.  Invocation r happens
\* after the invocations before it.
ExecuteScreening(r, id) ==
    /\ runs[r].pc = "idle"
    /\ \A q \in Runs : q < r => runs[q].pc # "idle"
    /\ LET context == GetContext(id)
       IN  runs' = [runs EXCEPT ![r] =
              IF context = NoRef
              THEN [@ EXCEPT !.pc = "raised", !.id = id, !.exc = "ValueError"]
              ELSE Launch([@ EXCEPT !.pc = "running", !.id = id,
                                    !.ctx = context], 1, heap[context])]
    /\ UNCHANGED <<svcVars, orderVars, ctxVars, faults, audit_log>>

\* AuditAgent._run: the entry is appended to self.audit_log and the result
\* names itself after the length the log has then
AuditId(log) == log + 1

\* agent.execute returns a result; behind a direct await the coroutine goes
\* on at once, a gather's task just keeps its result.  A success of the
\* audit stage has added an entry to the audit log of the agent.
StageReturn(r, s, status) ==
    LET run == runs[r]
        audited == s = "audit" /\ status = "success"
        returned == [run EXCEPT
                        !.task[s] = status,
                        !.audit_id = IF audited THEN AuditId(audit_log) ELSE @,
                        !.first = IF run.pc = "running" /\ Gathered(PhaseOf(s))
                                     /\ @ \notin Range(Phases[PhaseOf(s)])
                                  THEN s ELSE @]
    IN  /\ run.task[s] = "running"
        /\ status = "error" => faults < MaxFaults
        /\ faults' = IF status = "error" THEN faults + 1 ELSE faults
        /\ audit_log' = IF audited THEN audit_log + 1 ELSE audit_log
        /\ IF run.pc = "running" /\ s \in Range(Phases[run.phase])
              /\ ~Gathered(run.phase)
           THEN LET out == Continue(returned, heap)
                IN  Settle([runs EXCEPT ![r] = out.run], out.heap)
           ELSE Settle([runs EXCEPT ![r] = returned], heap)
        /\ UNCHANGED <<svcVars, orderVars, contexts, ret>>

\* agent.execute raises: the exception goes through the await (a gather
\* hands on the first one, its other tasks run on) and through
\* `except Exception: ... raise` out of execute_screening
StageRaise(r, s) ==
    LET run == runs[r]
    IN  /\ run.task[s] = "running"
        /\ faults < MaxFaults
        /\ faults' = faults + 1
        /\ UNCHANGED audit_log
        /\ Settle([runs EXCEPT ![r] =
                      IF run.pc = "running"
                      THEN [run EXCEPT !.task[s] = "raised", !.pc = "raised",
                                       !.exc = "StageException"]
                      ELSE [run EXCEPT !.task[s] = "raised"]],
                  heap)
        /\ UNCHANGED <<svcVars, orderVars, contexts, ret>>

\* the coroutine wakes from `await asyncio.gather(...)` with both results
GatherReturn(r) ==
    LET run == runs[r]
    IN  /\ run.pc = "running"
        /\ Gathered(run.phase)
        /\ GatherDone(run)
        /\ LET out == Continue(run, heap)
           IN  Settle([runs EXCEPT ![r] = out.run], out.heap)
        /\ UNCHANGED <<svcVars, orderVars, contexts, ret, faults, audit_log>>

\* the initial data of the contexts Spec creates
SpecData == {"d1"}

\* the ids invocation r of execute_screening is made for: the ids are
\* interchangeable, so the first invocation is made for the first of them
\* and a later one for any
ScreenedBy(r) == IF r = 1 THEN {IdSeq[1]} ELSE Ids

\* AgentOrchestrator.__init__ with _register_all_agents, ContextManager.__init__
Init ==
    /\ agents = RegisteredAgents
    /\ agent_dependencies = RegisteredDeps
    /\ plan = NoPlan
    /\ contexts = [id \in Ids |-> NoRef]
    /\ heap = [ref \in Refs |-> FreeSlot]
    /\ ret = NoCall
    /\ runs = [r \in Runs |-> IdleRun]
    /\ faults = 0
    /\ audit_log = 0
    /\ active_screenings = {}
    /\ _running = FALSE
    /\ _locks = {}
    /\ applications = [id \in Ids |-> SubmittedRow]
    /\ workers = [w \in Workers |-> IdleWorker]

Next ==
    \/ \E id \in Ids, d \in SpecData : CreateContext(id, d)
    \/ \E r \in Runs : \E id \in ScreenedBy(r) : ExecuteScreening(r, id)
    \/ \E r \in Runs, s \in Stages, st \in ReturnStatuses : StageReturn(r, s, st)
    \/ \E r \in Runs, s \in Stages : StageRaise(r, s)
    \/ \E r \in Runs : GatherReturn(r)

Spec == Init /\ [][Next]_vars

\* the status of a screening and the calls that ask for it: the context
\* store together with start_screening and get_status of the orchestrator
\* as constructed
InitApi == Init

NextApi ==
    \/ \E id \in Ids, d \in SpecData : CreateContext(id, d)
    \/ \E id \in Ids, d \in SpecData : StartScreening(id, d)
    \/ \E id \in Ids, a \in CtxAgents :
          StoreAgentResult(id, a, SuccessResult(a))
    \/ \E id \in Ids, st \in UpdateStatuses : UpdateStatus(id, st)
    \/ \E id \in Ids, a \in CtxAgents : GetAgentResult(id, a)
    \/ \E id \in Ids : GetStatus(id)
    \/ \E id \in Ids, timeout \in Timeouts : WaitForCompletion(id, timeout)
    \/ \E id \in Ids : CleanupContext(id)

SpecApi == InitApi /\ [][NextApi]_vars

\* one execute_screening coroutine, with start() and stop() called while it
\* is under way, as the processor does on a signal
InitStop == Init

NextStop ==
    \/ \E id \in Ids, d \in SpecData : CreateContext(id, d)
    \/ \E id \in Ids : ExecuteScreening(1, id)
    \/ \E s \in Stages, st \in ReturnStatuses : StageReturn(1, s, st)
    \/ \E s \in Stages : StageRaise(1, s)
    \/ GatherReturn(1)
    \/ Start
    \/ Stop

SpecStop == InitStop /\ [][NextStop]_vars

\* the two batch loops over a table with every application submitted
InitPending == Init

NextPending ==
    \/ \E w \in Workers, limit \in Limits : PickUp(w, limit)
    \/ \E w \in Workers : BeginApplication(w)
    \/ \E w \in Workers, outcome \in Outcomes : EndApplication(w, outcome)

SpecPending == InitPending /\ [][NextPending]_vars

(***************************************************************************)
(* Properties of the dependency graph, stated without the visit.           *)
(***************************************************************************)
Registered == Range(agents)

DependsOn(x, y) == y \in Range(DepsOf(agent_dependencies, x))

\* y is reachable from x along at least one dependency edge
RECURSIVE ReachIn(_, _, _)
ReachIn(x, y, n) ==
    \/ DependsOn(x, y)
    \/ n > 1 /\ \E z \in Names : DependsOn(x, z) /\ ReachIn(z, y, n - 1)

Cyclic == \E x \in Registered : ReachIn(x, x, Cardinality(Names))

DepsRegistered ==
    \A x \in Registered : Range(DepsOf(agent_dependencies, x)) \subseteq Registered

Planned == plan.computed

\* C1: for an acyclic graph whose dependencies are all registered, the
\* computed order holds every registered stage exactly once, each stage
\* after all of its dependencies; an empty registry gives the empty order.
C1_OrderIsTopological ==
    (Planned /\ ~Cyclic /\ DepsRegistered) =>
        /\ plan.error = NoError
        /\ Len(plan.order) = Cardinality(Registered)
        /\ Range(plan.order) = Registered
        /\ \A x \in Registered :
              \A y \in Range(DepsOf(agent_dependencies, x)) :
                  Position(plan.order, y) < Position(plan.order, x)
        /\ (agents = <<>> => plan.order = <<>>)

\* a stage registered before its dependency is placed after it
C1_Witness ==
    /\ Planned /\ ~Cyclic /\ DepsRegistered
    /\ Len(agents) = 3
    /\ DependsOn(agents[1], agents[2]) /\ DependsOn(agents[2], agents[3])
    /\ plan.order = <<agents[3], agents[2], agents[1]>>

\* C10: for a graph with a cycle, plan building ends with a
\* cyclic-dependency error and returns no order.
C10_CycleRaisesCyclicDependencyError ==
    (Planned /\ Cyclic) =>
        (plan.error = "CyclicDependencyError" /\ plan.order = <<>>)

\* C11: for an acyclic graph in which a registered stage names a dependency
\* that was never registered, plan building ends with an unknown-dependency
\* error and returns no order.
C11_UnknownDependencyRaises ==
    (Planned /\ ~Cyclic /\ ~DepsRegistered) =>
        (plan.error = "UnknownDependencyError" /\ plan.order = <<>>)

Max(S) == CHOOSE m \in S : \A n \in S : n <= m

\* the dependency depth of x in the graph deps: 0 without dependencies, else
\* one more than the largest depth of a dependency (n bounds the descent)
RECURSIVE Depth(_, _, _)
Depth(deps, x, n) ==
    IF DepsOf(deps, x) = <<>> \/ n = 0 THEN 0
    ELSE 1 + Max({Depth(deps, d, n - 1) : d \in Range(DepsOf(deps, x))})

\* C24: for an acyclic graph whose dependencies are all registered, any two
\* stages of equal dependency depth appear in the computed order in the
\* order in which they were registered.
C24_EqualDepthInRegistrationOrder ==
    (Planned /\ ~Cyclic /\ DepsRegistered /\ plan.error = NoError) =>
        \A x \in Registered, y \in Registered :
            (/\ Depth(agent_dependencies, x, Cardinality(Names))
                   = Depth(agent_dependencies, y, Cardinality(Names))
             /\ Position(agents, x) < Position(agents, y))
            => Position(plan.order, x) < Position(plan.order, y)

\* C21: registering a stage under a name that is already registered fails
\* with a duplicate-stage error: no step changes the dependency list of a
\* registered name.
C21_DuplicateRegistrationFails ==
    [][\A n \in Registered :
          /\ n \in DOMAIN agent_dependencies'
          /\ agent_dependencies'[n] = agent_dependencies[n]
      ]_vars

(***************************************************************************)
(* Properties of the context store.                                      *)
(***************************************************************************)
HasContext(id) == contexts[id] # NoRef

ContextOf(id) == heap[contexts[id]]

\* C6: a second store_agent_result for the same (screening id, stage name)
\* is rejected with a duplicate-write error and the stored result stays the
\* one written first.
C6_SecondWriteRejected ==
    [][\A id \in Ids, a \in CtxAgents :
          (/\ ret'.op = "store_agent_result" /\ ret'.id = id /\ ret'.agent = a
           /\ HasContext(id) /\ a \in DOMAIN ContextOf(id).agent_results)
          => /\ ret'.raised = "DuplicateWriteError"
             /\ heap'[contexts'[id]].agent_results[a] = ContextOf(id).agent_results[a]
      ]_vars

\* C9: the input get_input_for_agent builds holds the initial input and, for
\* each named dependency with a stored result, exactly that result; no entry
\* for a named dependency without one, none for a stage that was not named.
C9_InputHoldsExactlyNamedDeps ==
    (ret.op = "get_input_for_agent" /\ HasContext(ret.id)) =>
        LET c == ContextOf(ret.id)
            expected == Range(ret.deps) \cap DOMAIN c.agent_results
        IN  /\ ret.raised = NoError
            /\ ret.value.initial_data = c.initial_data
            /\ DOMAIN ret.value.agent_results = expected
            /\ \A d \in expected : ret.value.agent_results[d] = c.agent_results[d]

\* C20: creating a context for an id that already has one fails and leaves
\* the context as it was (its initial data and its recorded results stay);
\* a context created for a new id starts with status created and no result.
C20_ExistingContextNotReplaced ==
    [][\A id \in Ids :
          /\ HasContext(id) =>
                /\ heap'[contexts'[id]].initial_data = ContextOf(id).initial_data
                /\ DOMAIN ContextOf(id).agent_results \subseteq
                      DOMAIN heap'[contexts'[id]].agent_results
          /\ (~HasContext(id) /\ contexts'[id] # NoRef) =>
                /\ heap'[contexts'[id]].status = "initialized"
                /\ heap'[contexts'[id]].agent_results = <<>>
      ]_vars

(***************************************************************************)
(* Properties of the screening status and of the calls that ask for it.    *)
(***************************************************************************)
\* created, running, completed, failed
LifecycleStatuses == {"initialized", "processing", "completed", "failed"}

LifecycleSteps ==
    {<<"initialized", "processing">>, <<"processing", "completed">>,
     <<"processing", "failed">>}

\* C12: the status of a screening is created, running, completed or failed,
\* and a status update either leaves it or moves it one step along
\* created -> running -> completed or failed.
C12_StatusFollowsLifecycle ==
    [][\A id \in Ids :
          (ret'.op = "update_status" /\ ret'.id = id /\ HasContext(id)) =>
              LET old == ContextOf(id).status
                  new == heap'[contexts'[id]].status
              IN  /\ new \in LifecycleStatuses
                  /\ new = old \/ <<old, new>> \in LifecycleSteps
      ]_vars

\* C14: start_screening returns the new screening id without raising and
\* the id has a context.
C14_StartScreeningReturnsId ==
    ret.op = "start_screening" =>
        (ret.raised = NoError /\ HasContext(ret.id))

\* the stages with a recorded result in context c
Recorded(c) == (DOMAIN c.agent_results) \cup (DOMAIN c.keys)

\* C18: a status query for a known screening returns without error, with a
\* completed-stage count equal to the number of stages whose result is
\* recorded and not above the total it reports.
C18_StatusQueryCountsRecordedStages ==
    (ret.op = "get_status" /\ HasContext(ret.id)) =>
        /\ ret.raised = NoError
        /\ ret.progress.agents_completed =
              Cardinality(Recorded(ContextOf(ret.id)))
        /\ ret.progress.agents_completed <= ret.progress.agents_total

\* C19: a status query or a read of a stage result for an id without a
\* context raises a screening-not-found error.
C19_UnknownIdRaisesNotFound ==
    (ret.op \in {"get_status", "get_agent_result"} /\ ~HasContext(ret.id)) =>
        ret.raised = "ScreeningNotFoundError"

C26_WritersOfAnIdShareItsLock ==
    ret.op \in {"store_agent_result", "update_status"} => ret.lock = ret.id

\* C28: every application is screened at most once.  A loop begins the
\* screening of an application only if its row is as the submission left
\* it: no loop has begun it before or is screening it now, and it has not
\* ended in an error.
C28_ApplicationScreenedAtMostOnce ==
    [][\A w \in Workers :
          (workers[w].pc = "selected" /\ workers'[w].pc = "screening") =>
              applications[workers[w].batch[workers[w].i]] = SubmittedRow
      ]_vars

\* C30: cleanup_context for a screening that has a context removes the
\* context and returns without error, and the contexts of the other
\* screenings stay as they are; for an id without a context it changes
\* nothing.
C30_CleanupRemovesContextWithoutError ==
    [][\A id \in Ids :
          (ret'.op = "cleanup_context" /\ ret'.id = id) =>
              /\ ret'.raised = NoError
              /\ contexts'[id] = NoRef
              /\ \A other \in Ids \ {id} :
                    /\ contexts'[other] = contexts[other]
                    /\ HasContext(other) =>
                          heap'[contexts'[other]] = ContextOf(other)
              /\ ~HasContext(id) => (contexts' = contexts /\ heap' = heap)
      ]_vars

(***************************************************************************)
(* Properties of execute_screening.                                        *)
(***************************************************************************)
\* the stages of the phases before the phase of s
EarlierStages == [s \in Stages |-> {t \in Stages : PhaseOf(t) < PhaseOf(s)}]

Earlier(s) == EarlierStages[s]

\* C2: while a stage of a run is executing, every stage of every earlier
\* phase of that run has returned and a result of it, success or error, is
\* recorded in the context the run works on.
C2_LaterPhaseAfterEarlierRecorded ==
    \A r \in Runs, s \in Stages :
        runs[r].task[s] = "running" =>
            \A t \in Earlier(s) :
                /\ runs[r].task[t] \in ReturnStatuses
                /\ t \in DOMAIN heap[runs[r].ctx].keys
                /\ heap[runs[r].ctx].keys[t] \in
                      {ResultOf(t, status) : status \in ReturnStatuses}

\* the last stage runs after a stage of the first phase returned an error,
\* all seven earlier results recorded
C2_Witness ==
    \E r \in Runs :
        /\ runs[r].task["audit"] = "running"
        /\ runs[r].task["identity"] = "error"
        /\ DOMAIN heap[runs[r].ctx].keys = Stages \ {"audit"}

\* C3: an exception a stage raises does not end the run with that
\* exception; the run goes on to its report, which holds an error result
\* for the stage.
C3_StageExceptionIsRecordedNotRaised ==
    \A r \in Runs, s \in Stages :
        runs[r].task[s] = "raised" =>
            /\ runs[r].pc # "raised"
            /\ runs[r].pc = "done" =>
                  \E i \in DOMAIN runs[r].report.agent_results :
                      runs[r].report.agent_results[i] = ErrorResult(s)

\* C4: once a run in which a stage of a gathered phase raised has come to
\* rest, the result every other stage of that phase returned is recorded in
\* the context the run worked on.
C4_SiblingOfRaisedStageRecorded ==
    \A r \in Runs, s \in Stages, t \in Stages :
        (/\ s # t
         /\ PhaseOf(s) = PhaseOf(t)
         /\ runs[r].task[s] = "raised"
         /\ runs[r].task[t] \in ReturnStatuses
         /\ ~Holds(runs[r])
         /\ runs[r].ctx # NoRef)
        => t \in DOMAIN heap[runs[r].ctx].keys

C7_RecordedResultNeverReplaced ==
    [][\A id \in Ids, s \in Stages :
          (/\ HasContext(id)
           /\ s \in DOMAIN ContextOf(id).keys
           /\ s \in DOMAIN heap'[contexts'[id]].keys)
          => heap'[contexts'[id]].keys[s] = ContextOf(id).keys[s]
      ]_vars

\* C8: a stage is handed a built input, not the context itself, and the
\* results it can read there are those of its declared dependencies.
C8_StageSeesOnlyDeclaredDependencies ==
    \A r \in Runs, s \in Stages :
        runs[r].task[s] = "running" =>
            /\ runs[r].input[s] # "context"
            /\ Exposed(runs[r], s) \subseteq
                  Range(DepsOf(agent_dependencies, s))

\* the run has ended: its coroutine returned or raised
Ended(run) == run.pc \in {"done", "raised"}

\* C13: when a run has ended, the status of the context it worked on is
\* completed or failed.
C13_EndedRunLeavesFinalStatus ==
    \A r \in Runs :
        (Ended(runs[r]) /\ runs[r].ctx # NoRef) =>
            heap[runs[r].ctx].status \in {"completed", "failed"}

\* the entries of a report that are results of stage s
EntriesOf(report, s) ==
    {i \in DOMAIN report.agent_results :
        report.agent_results[i].agent = AgentNameOf(s)}

\* C15: an error result of a stage does not abort the run.  The run ends
\* with an exception only if a stage raised one; while it goes on, stages of
\* its current phase are running or their gather is complete; and when it is
\* done every stage has returned and the report holds the error result of
\* the failed stage and one entry for every other stage.
C15_ErrorResultDoesNotAbort ==
    \A r \in Runs, s \in Stages :
        runs[r].task[s] = "error" =>
            /\ runs[r].pc = "raised" =>
                  \E t \in Stages : runs[r].task[t] = "raised"
            /\ runs[r].pc = "running" =>
                  \/ \E t \in Range(Phases[runs[r].phase]) :
                        runs[r].task[t] = "running"
                  \/ GatherDone(runs[r])
            /\ runs[r].pc = "done" =>
                  /\ \A t \in Stages : runs[r].task[t] \in ReturnStatuses
                  /\ \E i \in EntriesOf(runs[r].report, s) :
                        runs[r].report.agent_results[i] = ErrorResult(s)
                  /\ \A t \in Stages :
                        Cardinality(EntriesOf(runs[r].report, t)) = 1

\* a run is done although a stage of its first phase returned an error; all
\* seven other stages returned success
C15_Witness ==
    \E r \in Runs :
        /\ runs[r].pc = "done"
        /\ runs[r].task["identity"] = "error"
        /\ \A t \in Stages \ {"identity"} : runs[r].task[t] = "success"
        /\ Len(runs[r].report.agent_results) = Cardinality(Stages)

\* C16: whichever stage of a gathered phase returns first, what is recorded
\* and reported is the same.  Every result recorded in a context under the
\* name of a stage is a result of that stage; the entries of a report are
\* the results the stages of its run returned, in the fixed order of the
\* report; and in a context that one run alone has worked on, each recorded
\* result is the one the stage returned in that run.
C16_ResultsIndependentOfCompletionOrder ==
    /\ \A ref \in Refs : \A s \in DOMAIN heap[ref].keys :
          heap[ref].keys[s] \in
              {ResultOf(s, status) : status \in ReturnStatuses}
    /\ \A r \in Runs :
          runs[r].pc = "done" =>
              runs[r].report.agent_results =
                  [i \in 1..Len(ReportOrder) |->
                      ResultOf(ReportOrder[i], runs[r].task[ReportOrder[i]])]
    /\ \A r \in Runs :
          (runs[r].ctx # NoRef /\ \A q \in Runs \ {r} : runs[q].pc = "idle") =>
              \A s \in DOMAIN heap[runs[r].ctx].keys :
                  heap[runs[r].ctx].keys[s] = ResultOf(s, runs[r].task[s])

\* the stage listed second in the first gather returned first, with success,
\* the stage listed first returned an error after it, and both results are
\* recorded under their own names
C16_Witness ==
    \E r \in Runs :
        /\ runs[r].phase = PhaseOf("fraud")
        /\ runs[r].first = "identity"
        /\ \A q \in Runs \ {r} : runs[q].pc = "idle"
        /\ heap[runs[r].ctx].keys =
              [s \in {"ingestion", "identity"} |->
                  IF s = "ingestion" THEN ErrorResult(s) ELSE SuccessResult(s)]

\* C23: the report of a screening is determined by its own input alone: two
\* completed runs of one orchestrator with the same initial data whose
\* stages returned alike have the same report, whichever of them ran first.
C23_ReportIndependentOfOtherScreenings ==
    \A r \in Runs, q \in Runs :
        (/\ runs[r].pc = "done" /\ runs[q].pc = "done"
         /\ runs[r].ctx # NoRef /\ runs[q].ctx # NoRef
         /\ heap[runs[r].ctx].initial_data = heap[runs[q].ctx].initial_data
         /\ runs[r].task = runs[q].task)
        => runs[r].report = runs[q].report

\* the result has status error and an error description without a payload,
\* or status success and a payload without an error description
WellFormed(result) ==
    /\ result.status \in {"success", "error"}
    /\ result.status = "error" <=>
          (result.error # "absent" /\ result.data = "absent")
    /\ result.status = "success" <=>
          (result.data # "absent" /\ result.error = "absent")

\* C25: every stage result recorded in a context or returned in a report has
\* status error exactly when it carries an error description and no
\* payload, and status success exactly when it carries a payload and no
\* error description.
C25_ResultsAreWellFormed ==
    /\ \A ref \in Refs : \A s \in DOMAIN heap[ref].keys :
          WellFormed(heap[ref].keys[s])
    /\ \A r \in Runs : \A i \in DOMAIN runs[r].report.agent_results :
          WellFormed(runs[r].report.agent_results[i])

\* a completed run whose report and context hold the error result of one
\* stage next to the success results of the others
C25_Witness ==
    \E r \in Runs :
        /\ runs[r].pc = "done"
        /\ runs[r].ctx # NoRef
        /\ heap[runs[r].ctx].keys["fraud"] = ErrorResult("fraud")
        /\ heap[runs[r].ctx].keys["risk"] = SuccessResult("risk")
        /\ \E i, j \in DOMAIN runs[r].report.agent_results :
              /\ runs[r].report.agent_results[i].status = "error"
              /\ runs[r].report.agent_results[j].status = "success"

\* the dependency depth of every stage of the graph registered at
\* construction, and the order _determine_execution_order computes for it
RegisteredDepth ==
    [s \in Stages |-> Depth(RegisteredDeps, s, Cardinality(Stages))]

RegisteredOrder == DetermineExecutionOrderOf(RegisteredAgents, RegisteredDeps)

\* the stages of the phases from the p-th on, in the order they are invoked
RECURSIVE PhasesFrom(_)
PhasesFrom(p) == IF p > Len(Phases) THEN <<>> ELSE Phases[p] \o PhasesFrom(p + 1)

\* the phases are the waves by depth of the registered graph, and the
\* computed order of that graph is the phases one after another
PhasesMatchRegisteredGraph ==
    /\ \A p \in 1..Len(Phases) :
          Range(Phases[p]) =
              {s \in Range(RegisteredAgents) : RegisteredDepth[s] = p - 1}
    /\ \A s \in Range(RegisteredAgents) : RegisteredDepth[s] < Len(Phases)
    /\ RegisteredOrder.error = NoError
    /\ RegisteredOrder.order = PhasesFrom(1)

\* C27: the phases of execute_screening are the waves by dependency depth
\* of the graph registered at construction, in order: the p-th phase holds
\* precisely the registered stages of depth p - 1 and there are no further
\* depths; the order _determine_execution_order computes for that graph
\* holds the same stages, wave after wave; and a run under way executes
\* stages of the wave of its phase only.
C27_PhasesAreDepthWaves ==
    /\ agents = RegisteredAgents
    /\ agent_dependencies = RegisteredDeps
    /\ PhasesMatchRegisteredGraph
    /\ \A r \in Runs, s \in Stages :
          (runs[r].pc = "running" /\ runs[r].task[s] = "running") =>
              RegisteredDepth[s] = runs[r].phase - 1

\* a run executes the audit stage, alone in the last phase, the deepest wave
C27_Witness ==
    \E r \in Runs :
        /\ runs[r].pc = "running"
        /\ runs[r].phase = Len(Phases)
        /\ runs[r].task["audit"] = "running"
        /\ RegisteredDepth["audit"] = Len(Phases) - 1

\* C29: after stop() has returned the set of active screenings is empty, and
\* no further stage is invoked for a screening that was under way when
\* stop() was called.
C29_NoStageInvokedAfterStop ==
    [][(ret.op = "stop" /\ ret'.op = "stop") =>
          /\ active_screenings' = {}
          /\ \A r \in ret.inflight, s \in Stages :
                runs'[r].task[s] = "running" => runs[r].task[s] = "running"
      ]_vars

====
